---- MODULE Spec2Model ----
(***************************************************************************)
(* TLS server driver (src/common/io/tls/server.c): construction of the     *)
(* driver and its shared TLS context, the name/accept/toLog interface, and *)
(* release of the context through the mem context callback.                *)
(***************************************************************************)
EXTENDS Integers, Sequences, FiniteSets, TLC

\* ---- bounds of the model ----
MaxServers == 1
MaxAccepts == 2

\* ---- program constants ----
NULL == 0
HandshakeTimeout == 5000
NoError == "none"

\* ---- input domains ----
Servers == 1..MaxServers
PlainSessions == 1..MaxAccepts
\* host and timeout a server is constructed with
Configs == {[host |-> "db1", timeout |-> 30000], [host |-> "db2", timeout |-> 5000]}
Paths == {"cert.pem", "key.pem"}

VARIABLES
    driver,      \* TlsServer struct of each server: host, context, timeout
    memContext,  \* state of each TlsServer mem context: none / active / freed
    callback,    \* whether tlsServerFreeResource is registered on the mem context
    this,        \* IoServer handle returned by tlsServerNew (NULL when none)
    newError,    \* error raised by tlsServerNew (NoError when it returned)
    fileReads,   \* files read by tlsServerNew, in order
    sslCtx,      \* heap of SSL_CTX objects
    ssl,         \* heap of SSL objects (per-connection protocol handles)
    sessions,    \* heap of TLS sessions built by tlsSessionNew
    acceptLog,   \* one entry per tlsServerAccept call
    stat,        \* statistics counters
    ret,         \* last value returned by name / toLog
    crashed      \* the process was terminated by a null dereference

vars == <<driver, memContext, callback, this, newError, fileReads,
          sslCtx, ssl, sessions, acceptLog, stat, ret, crashed>>

\* ---- collaborators ----

\* cryptoError(error, description): raises a crypto error when error is set
cryptoError(err, error, description) ==
    IF err # NoError THEN err ELSE IF error THEN description ELSE NoError

\* outcome of reading a PEM certificate / private key from a path
CertificateFileOk(path) == path = "cert.pem"
PrivateKeyFileOk(path) == path = "key.pem"

\* decimal rendering of an unsigned integer (PRIu64)
RECURSIVE Decimal(_)
Decimal(n) ==
    IF n < 10 THEN <<n>> ELSE Append(Decimal(n \div 10), n % 10)

\* ---- tlsServerToLog / tlsServerName ----
tlsServerToLogValue(drv) ==
    <<"{host: ", drv.host, ", timeout: ", Decimal(drv.timeout), "}">>

tlsServerNameValue(drv) == <<drv.host>>

\* ---- tlsServerFreeResource ----
tlsServerFreeResource(heap, drv) ==
    IF drv.context = NULL THEN heap
    ELSE [heap EXCEPT ![drv.context].freed = @ + 1]

\* freeing a mem context runs its callback, when one is registered, once
memContextFree(heap, drv, cb) ==
    IF cb THEN tlsServerFreeResource(heap, drv) ELSE heap

\* ---- tlsServerNew, statement by statement ----
\* The local state st carries the driver under construction, the error in
\* flight (a statement is skipped once an error was raised) and the effects.

NewBegin(host, timeout) ==
    [err |-> NoError,
     drv |-> [host |-> host, context |-> NULL, timeout |-> timeout],
     cb |-> FALSE, heap |-> sslCtx, reads |-> <<>>, stat |-> stat,
     this |-> NULL, mem |-> "active"]

SslMethod(st, methodOk) ==
    [st EXCEPT !.err = cryptoError(st.err, ~methodOk, "unable to load TLS method")]

SslCtxNew(st, s, ctxOk) ==
    IF st.err # NoError THEN st
    ELSE IF ctxOk
         THEN [st EXCEPT
                 !.heap = Append(st.heap, [owner |-> s, cert |-> FALSE,
                                           key |-> FALSE, freed |-> 0]),
                 !.drv.context = Len(st.heap) + 1]
         ELSE [st EXCEPT !.err = cryptoError(st.err, TRUE, "unable to create TLS context")]

\* variant: the callback is never registered
CallbackSetSkipped(st) == st

CallbackSet(st) ==
    IF st.err # NoError THEN st ELSE [st EXCEPT !.cb = TRUE]

\* variant: the result of the certificate load is not checked
UseCertificateFileUnchecked(st, certFile) ==
    IF st.err # NoError THEN st
    ELSE [st EXCEPT
            !.reads = Append(st.reads, [kind |-> "cert", path |-> certFile]),
            !.heap[st.drv.context].cert = CertificateFileOk(certFile)]

UseCertificateFile(st, certFile) ==
    IF st.err # NoError THEN st
    ELSE [st EXCEPT
            !.reads = Append(st.reads, [kind |-> "cert", path |-> certFile]),
            !.heap[st.drv.context].cert = CertificateFileOk(certFile),
            !.err = cryptoError(st.err, ~CertificateFileOk(certFile),
                                "unable to load server certificate")]

\* variant: the result of the private-key load is not checked
UsePrivateKeyFileUnchecked(st, keyFile) ==
    IF st.err # NoError THEN st
    ELSE [st EXCEPT
            !.reads = Append(st.reads, [kind |-> "key", path |-> keyFile]),
            !.heap[st.drv.context].key = PrivateKeyFileOk(keyFile)]

UsePrivateKeyFile(st, keyFile) ==
    IF st.err # NoError THEN st
    ELSE [st EXCEPT
            !.reads = Append(st.reads, [kind |-> "key", path |-> keyFile]),
            !.heap[st.drv.context].key = PrivateKeyFileOk(keyFile),
            !.err = cryptoError(st.err, ~PrivateKeyFileOk(keyFile),
                                "unable to load server private key")]

StatIncServer(st) ==
    IF st.err # NoError THEN st ELSE [st EXCEPT !.stat.server = @ + 1]

IoServerNew(st, s) ==
    IF st.err # NoError THEN st ELSE [st EXCEPT !.this = s]

\* MEM_CONTEXT_NEW_END: an error raised inside the block frees the new context
NewEnd(st) ==
    IF st.err = NoError THEN st
    ELSE [st EXCEPT !.heap = memContextFree(st.heap, st.drv, st.cb),
                    !.mem = "freed"]

tlsServerNewResult(s, host, keyFile, certFile, timeout, methodOk, ctxOk) ==
    NewEnd(
     IoServerNew(
      StatIncServer(
       UsePrivateKeyFile(
        UseCertificateFile(
         CallbackSet(
          SslCtxNew(
           SslMethod(NewBegin(host, timeout), methodOk),
           s, ctxOk)),
         certFile),
        keyFile)),
      s))

tlsServerNew(s, host, keyFile, certFile, timeout) ==
    /\ ~crashed
    /\ memContext[s] = "none"
    /\ \A t \in Servers : t < s => memContext[t] # "none"
    /\ \E methodOk, ctxOk \in BOOLEAN :
         LET st == tlsServerNewResult(s, host, keyFile, certFile, timeout,
                                      methodOk, ctxOk)
         IN \* the driver struct lives in the new mem context and goes with it
            /\ driver' = IF st.err = NoError THEN [driver EXCEPT ![s] = st.drv]
                         ELSE driver
            /\ memContext' = [memContext EXCEPT ![s] = st.mem]
            /\ callback' = [callback EXCEPT ![s] = st.cb]
            /\ this' = [this EXCEPT ![s] = st.this]
            /\ newError' = [newError EXCEPT ![s] = st.err]
            /\ fileReads' = [fileReads EXCEPT ![s] = st.reads]
            /\ sslCtx' = st.heap
            /\ stat' = st.stat
    /\ UNCHANGED <<ssl, sessions, acceptLog, ret, crashed>>

\* ---- tlsSessionNew (TLS session constructor) ----
\* Builds a session from a protocol handle, a plain session and a handshake
\* timeout.  It may raise before or after it has taken ownership of the
\* handle; once it owns the handle, its own cleanup releases the handle.
\* With a NULL handle the debug build raises an assertion and the production
\* build dereferences the null pointer.
SessionOutcomes(tlsSession) ==
    IF tlsSession = NULL THEN {"assert", "crash"}
    ELSE {"ok", "errorBeforeOwn", "errorAfterOwn"}

tlsSessionNew(sslHeap, sessHeap, tlsSession, ioSession, timeout, outcome) ==
    IF tlsSession = NULL
    THEN [err |-> IF outcome = "crash" THEN NoError ELSE "AssertError",
          crashed |-> outcome = "crash",
          ssl |-> sslHeap, sessions |-> sessHeap, result |-> NULL]
    ELSE IF outcome = "ok"
    THEN [err |-> NoError, crashed |-> FALSE,
          ssl |-> [sslHeap EXCEPT ![tlsSession].state = "owned"],
          sessions |-> Append(sessHeap, [tlsSession |-> tlsSession,
                                         ioSession |-> ioSession,
                                         timeout |-> timeout]),
          result |-> Len(sessHeap) + 1]
    ELSE IF outcome = "errorAfterOwn"
    THEN [err |-> "unable to negotiate TLS session", crashed |-> FALSE,
          ssl |-> [sslHeap EXCEPT ![tlsSession].state = "freed"],
          sessions |-> sessHeap, result |-> NULL]
    ELSE [err |-> "unable to create TLS session", crashed |-> FALSE,
          ssl |-> sslHeap, sessions |-> sessHeap, result |-> NULL]

\* ---- tlsServerAccept, statement by statement ----
NoCall == [tlsSession |-> NULL, ioSession |-> NULL, timeout |-> 0]

AcceptBegin(s) ==
    [err |-> NoError, crashed |-> FALSE, drv |-> driver[s], heap |-> sslCtx,
     ssl |-> ssl, sessions |-> sessions, stat |-> stat, serverTls |-> NULL,
     called |-> FALSE, call |-> NoCall, result |-> NULL]

\* variant: accept builds a context of its own and stores it in the driver
SslNewOwnContext(st, sslOk) ==
    LET heap == Append(st.heap, [st.heap[st.drv.context] EXCEPT !.freed = 0])
        ctx == Len(st.heap) + 1
    IN IF sslOk
       THEN [st EXCEPT !.heap = heap, !.drv.context = ctx,
                       !.ssl = Append(st.ssl, [ctx |-> ctx, state |-> "allocated"]),
                       !.serverTls = Len(st.ssl) + 1]
       ELSE [st EXCEPT !.serverTls = NULL]

\* variant: the handle of the previous connection is used again
SslNewReuse(st, sslOk) ==
    IF sslOk /\ Len(st.ssl) > 0
    THEN [st EXCEPT !.serverTls = Len(st.ssl)]
    ELSE IF sslOk
    THEN [st EXCEPT !.ssl = Append(st.ssl, [ctx |-> st.drv.context,
                                            state |-> "allocated"]),
                    !.serverTls = Len(st.ssl) + 1]
    ELSE [st EXCEPT !.serverTls = NULL]

\* SSL *serverTls = SSL_new(this->context); the result is not checked
SslNew(st, sslOk) ==
    IF sslOk
    THEN [st EXCEPT !.ssl = Append(st.ssl, [ctx |-> st.drv.context,
                                            state |-> "allocated"]),
                    !.serverTls = Len(st.ssl) + 1]
    ELSE [st EXCEPT !.serverTls = NULL]

\* the call of tlsSessionNew and the propagation of what it raises
CallSessionNew(st, session, timeout, outcome) ==
    LET r == tlsSessionNew(st.ssl, st.sessions, st.serverTls, session,
                           timeout, outcome)
    IN [st EXCEPT !.called = TRUE,
                  !.call = [tlsSession |-> st.serverTls, ioSession |-> session,
                            timeout |-> timeout],
                  !.err = r.err, !.crashed = r.crashed, !.ssl = r.ssl,
                  !.sessions = r.sessions, !.result = r.result]

\* variant: the handshake timeout is the driver's timeout
SessionNewDriverTimeout(st, session, outcome) ==
    CallSessionNew(st, session, st.drv.timeout, outcome)

\* variant: an error of the session constructor also frees the shared context
SessionNewFreeOnError(st, session, outcome) ==
    LET r == CallSessionNew(st, session, HandshakeTimeout, outcome)
    IN IF r.err = NoError THEN r
       ELSE [r EXCEPT !.heap = tlsServerFreeResource(r.heap, r.drv)]

\* result = tlsSessionNew(serverTls, session, 5000)
SessionNew(st, session, outcome) ==
    CallSessionNew(st, session, HandshakeTimeout, outcome)

\* variant: the counter is incremented whether or not a session was built
StatIncSessionAlways(st) == [st EXCEPT !.stat.session = @ + 1]

\* statInc(TLS_STAT_SESSION_STR), reached only when tlsSessionNew returned
StatIncSession(st) ==
    IF st.err # NoError \/ st.crashed THEN st
    ELSE [st EXCEPT !.stat.session = @ + 1]

tlsServerAcceptResult(s, session, sslOk, outcome) ==
    StatIncSession(SessionNew(SslNew(AcceptBegin(s), sslOk), session, outcome))

tlsServerAccept(s, session) ==
    /\ ~crashed
    /\ this[s] # NULL
    /\ memContext[s] = "active"
    /\ Len(acceptLog) < MaxAccepts
    \* plain sessions are interchangeable: the next unused one is the lowest
    /\ \A p \in PlainSessions :
         p < session => \E i \in 1..Len(acceptLog) : acceptLog[i].session = p
    /\ \E sslOk \in BOOLEAN :
         \E outcome \in SessionOutcomes(SslNew(AcceptBegin(s), sslOk).serverTls) :
           LET st == tlsServerAcceptResult(s, session, sslOk, outcome)
           IN /\ driver' = [driver EXCEPT ![s] = st.drv]
              /\ sslCtx' = st.heap
              /\ ssl' = st.ssl
              /\ sessions' = st.sessions
              /\ stat' = st.stat
              /\ crashed' = st.crashed
              /\ acceptLog' = Append(acceptLog,
                     [server |-> s, session |-> session,
                      serverTls |-> st.serverTls, called |-> st.called,
                      call |-> st.call, err |-> st.err, result |-> st.result,
                      crashed |-> st.crashed])
    /\ UNCHANGED <<memContext, callback, this, newError, fileReads, ret>>

\* ---- tlsServerName / tlsServerToLog through the interface ----
tlsServerName(s) ==
    /\ ~crashed
    /\ this[s] # NULL
    /\ memContext[s] = "active"
    /\ ret' = [op |-> "name", server |-> s, value |-> tlsServerNameValue(driver[s])]
    /\ UNCHANGED <<driver, memContext, callback, this, newError, fileReads,
                   sslCtx, ssl, sessions, acceptLog, stat, crashed>>

tlsServerToLog(s) ==
    /\ ~crashed
    /\ this[s] # NULL
    /\ memContext[s] = "active"
    /\ ret' = [op |-> "toLog", server |-> s, value |-> tlsServerToLogValue(driver[s])]
    /\ UNCHANGED <<driver, memContext, callback, this, newError, fileReads,
                   sslCtx, ssl, sessions, acceptLog, stat, crashed>>

\* ---- destruction ----
\* ioServerFree: the caller frees the server, which frees its mem context
ioServerFree(s) ==
    /\ ~crashed
    /\ this[s] # NULL
    /\ memContext[s] = "active"
    /\ sslCtx' = memContextFree(sslCtx, driver[s], callback[s])
    /\ memContext' = [memContext EXCEPT ![s] = "freed"]
    /\ UNCHANGED <<driver, callback, this, newError, fileReads, ssl,
                   sessions, acceptLog, stat, ret, crashed>>

\* an error elsewhere in the owning scope frees every server the scope owns
RECURSIVE FreeAll(_, _)
FreeAll(heap, S) ==
    IF S = {} THEN heap
    ELSE LET s == CHOOSE x \in S : TRUE
         IN FreeAll(memContextFree(heap, driver[s], callback[s]), S \ {s})

ownerScopeError ==
    /\ ~crashed
    /\ \E s \in Servers : memContext[s] = "active"
    /\ sslCtx' = FreeAll(sslCtx, {s \in Servers : memContext[s] = "active"})
    /\ memContext' = [s \in Servers |->
                        IF memContext[s] = "active" THEN "freed" ELSE memContext[s]]
    /\ UNCHANGED <<driver, callback, this, newError, fileReads, ssl,
                   sessions, acceptLog, stat, ret, crashed>>

Init ==
    /\ driver = [s \in Servers |-> [host |-> "", context |-> NULL, timeout |-> 0]]
    /\ memContext = [s \in Servers |-> "none"]
    /\ callback = [s \in Servers |-> FALSE]
    /\ this = [s \in Servers |-> NULL]
    /\ newError = [s \in Servers |-> NoError]
    /\ fileReads = [s \in Servers |-> <<>>]
    /\ sslCtx = <<>>
    /\ ssl = <<>>
    /\ sessions = <<>>
    /\ acceptLog = <<>>
    /\ stat = [server |-> 0, session |-> 0]
    /\ ret = [op |-> "none", server |-> NULL, value |-> <<>>]
    /\ crashed = FALSE

Next ==
    \/ \E s \in Servers, cfg \in Configs, keyFile \in Paths, certFile \in Paths :
          tlsServerNew(s, cfg.host, keyFile, certFile, cfg.timeout)
    \/ \E s \in Servers, session \in PlainSessions : tlsServerAccept(s, session)
    \/ \E s \in Servers : tlsServerName(s)
    \/ \E s \in Servers : tlsServerToLog(s)
    \/ \E s \in Servers : ioServerFree(s)
    \/ ownerScopeError

\* ---- properties ----
ServerCtx(s) == sslCtx[driver[s].context]
Calls == 1..Len(acceptLog)
Returned == {i \in Calls : acceptLog[i].result # NULL}
Failed == {i \in Calls : acceptLog[i].err # NoError}

\* C1: every TLS context allocated by SSL_CTX_new is released by
\* tlsServerFreeResource exactly once over the lifecycle of its server: not at
\* all while the server's mem context is alive, once when it has been freed
\* (by a failed construction or by destruction), never twice; and the release
\* is registered only for a server whose context was allocated.
ContextReleasedExactlyOnce ==
    /\ \A c \in 1..Len(sslCtx) :
         /\ memContext[sslCtx[c].owner] \in {"active", "freed"}
         /\ sslCtx[c].freed = IF memContext[sslCtx[c].owner] = "freed" THEN 1 ELSE 0
    /\ \A s \in Servers :
         callback[s] => \E c \in 1..Len(sslCtx) : sslCtx[c].owner = s

ContextReleasedOnDestroy ==
    \E c \in 1..Len(sslCtx) :
        /\ this[sslCtx[c].owner] # NULL
        /\ memContext[sslCtx[c].owner] = "freed"
        /\ sslCtx[c].freed = 1

\* C2: a server handle is returned only when method selection, context
\* allocation, certificate load and private-key load all succeeded; a failed
\* construction returns no handle, so every accept runs on a context that
\* holds both the certificate and the private key.
PublishedOnlyWhenComplete ==
    /\ \A s \in Servers :
         /\ this[s] # NULL =>
              /\ newError[s] = NoError
              /\ driver[s].context # NULL
              /\ ServerCtx(s).cert /\ ServerCtx(s).key
              /\ Len(fileReads[s]) = 2
         /\ newError[s] # NoError => this[s] = NULL
    /\ \A i \in Calls :
         /\ driver[acceptLog[i].server].context # NULL
         /\ ServerCtx(acceptLog[i].server).cert
         /\ ServerCtx(acceptLog[i].server).key

KeyLoadFailedNothingPublished ==
    \E s \in Servers :
        /\ newError[s] = "unable to load server private key"
        /\ this[s] = NULL
        /\ \E c \in 1..Len(sslCtx) :
             sslCtx[c].owner = s /\ sslCtx[c].cert /\ ~sslCtx[c].key

\* C3: when SSL_new returns NULL inside accept, accept fails with
\* CryptoHandshakeInitError and tlsSessionNew is not called with the NULL handle.
NullHandleRejected ==
    \A i \in Calls :
        acceptLog[i].serverTls = NULL =>
            /\ acceptLog[i].err = "CryptoHandshakeInitError"
            /\ ~(acceptLog[i].called /\ acceptLog[i].call.tlsSession = NULL)

\* C4: tlsServerNew reads the certificate file first and the private-key file
\* second, and reads the private-key file only after the certificate load
\* succeeded; a failed certificate load ends construction with the certificate
\* error and the private-key file unread.
CertificateBeforeKey ==
    \A s \in Servers :
        LET r == fileReads[s]
        IN /\ Len(r) <= 2
           /\ Len(r) >= 1 => r[1].kind = "cert"
           /\ Len(r) = 2 => r[2].kind = "key" /\ CertificateFileOk(r[1].path)
           /\ (Len(r) >= 1 /\ ~CertificateFileOk(r[1].path)) =>
                /\ newError[s] = "unable to load server certificate"
                /\ Len(r) = 1

CertificateLoadFailed ==
    \E s \in Servers :
        /\ newError[s] = "unable to load server certificate"
        /\ fileReads[s] = <<[kind |-> "cert", path |-> "key.pem"]>>

\* C5: once tlsServerNew has returned a server, no step taken while the server
\* is alive (accept, name, toLog, on this or any other server) changes the
\* driver's host, timeout or context, nor the context object itself; an accept
\* leaves the protocol handles of earlier connections as they were.
DriverReadOnlyAfterNew ==
    [][/\ \A s \in Servers :
            (this[s] # NULL /\ memContext[s] = "active" /\ memContext'[s] = "active") =>
                /\ driver'[s] = driver[s]
                /\ sslCtx'[driver[s].context] = sslCtx[driver[s].context]
       /\ Len(acceptLog') > Len(acceptLog) =>
            /\ Len(ssl') >= Len(ssl)
            /\ \A h \in 1..Len(ssl) : ssl'[h].ctx = ssl[h].ctx]_vars

AcceptsAndToLogDone ==
    \E s \in Servers :
        /\ memContext[s] = "active"
        /\ ret.op = "toLog" /\ ret.server = s
        /\ Cardinality({i \in Calls : acceptLog[i].server = s}) >= 2

SessionCounterCountsReturned ==
    /\ stat.session = Cardinality(Returned)
    /\ stat.session = Len(sessions)

CounterAfterFailureAndSuccess ==
    /\ Failed # {}
    /\ Returned # {}
    /\ stat.session = 1

\* C8: two accept calls on the same server with distinct plain sessions return
\* distinct sessions, each built from a handle of its own that was allocated
\* from the server's context, and each wrapping the plain session of its call.
AcceptedSessionsIndependent ==
    \A i, j \in Returned :
        (/\ i # j
         /\ acceptLog[i].server = acceptLog[j].server
         /\ acceptLog[i].session # acceptLog[j].session) =>
            LET si == sessions[acceptLog[i].result]
                sj == sessions[acceptLog[j].result]
            IN /\ acceptLog[i].result # acceptLog[j].result
               /\ si.tlsSession # NULL /\ sj.tlsSession # NULL
               /\ si.tlsSession # sj.tlsSession
               /\ ssl[si.tlsSession].ctx = driver[acceptLog[i].server].context
               /\ ssl[sj.tlsSession].ctx = driver[acceptLog[j].server].context
               /\ si.ioSession = acceptLog[i].session
               /\ sj.ioSession = acceptLog[j].session
               /\ si.ioSession # sj.ioSession

TwoSessionsAccepted ==
    \E i, j \in Returned :
        /\ i # j
        /\ acceptLog[i].server = acceptLog[j].server
        /\ acceptLog[i].session # acceptLog[j].session

\* C9: when accept fails after the protocol handle was allocated, the handle
\* has been released when the error leaves accept.
HandleReleasedOnFailedAccept ==
    \A i \in Failed :
        acceptLog[i].serverTls # NULL => ssl[acceptLog[i].serverTls].state = "freed"

Spec == Init /\ [][Next]_vars
====
